---- MODULE Spec2Model ----
(***************************************************************************)
(* A model of hugolib/site.go: the Site build pipeline.                    *)
(*   Build   = Process ; Render                                            *)
(*   Process = initialize ; prepTemplates ; CreatePages ; setupPrevNext ;  *)
(*             BuildSiteMeta                                               *)
(*   Render  = RenderAliases ; ProcessShortcodes ; RenderIndexes ;         *)
(*             RenderIndexesIndexes ; RenderLists ; RenderPages ;          *)
(*             RenderHomePage                                              *)
(*   render  = one render call: a template-execution goroutine and a       *)
(*             transform goroutine joined by two io.Pipe, drained by       *)
(*             Target.Publish.                                             *)
(*   apply   = the test of the absolute-URL rewriter (package transform).  *)
(* A Page is identified by the position of its source file in the content  *)
(* source (the *Page pointer of the code); 0 is the nil pointer.           *)
(***************************************************************************)
EXTENDS Integers, Sequences, FiniteSets, TLC

\* -------------------------------------------------------------- bounds
\* Longest list of source files the content source yields.
MaxFiles == 2

\* ------------------------------------------------------- error values
Nil == "nil"
ErrNoLayoutDir == "No layout directory found"
ErrNoSourceDir == "No source directory found"
ErrNoSourceFiles == "No source files found"
ErrParse == "parse error"

\* ------------------------------------------------- front matter values
\* What Page.GetParam hands back: nothing, a []string, or some other shape
\* (here a bare string).
NoParam == [kind |-> "nil", v |-> <<>>]
Strings(s) == [kind |-> "[]string", v |-> s]
BareString(s) == [kind |-> "string", v |-> <<s>>]

\* Site.Source: the nil interface, or a source.Input and the Files() it yields.
NoSource == [isNil |-> TRUE, files |-> <<>>]
SourceOf(files) == [isNil |-> FALSE, files |-> files]

Range(s) == {s[i] : i \in 1..Len(s)}

Count(x, s) == Cardinality({i \in 1..Len(s) : s[i] = x})

SeqsUpTo(S, n) == UNION {[1..k -> S] : k \in 0..n}

VARIABLES
    \* the environment and the configuration (inputs of a run)
    layoutDirExists,   \* dirExists(absLayoutDir())
    contentDirExists,  \* dirExists(absContentDir())
    layoutFiles,       \* names of the templates found in the layout directory
    inputFiles,        \* the source files, each with what ReadFrom makes of it
    BuildDrafts,       \* Config.BuildDrafts
    ConfigIndexes,     \* Config.Indexes: singular -> plural
    \* the Site
    Source,            \* Site.Source
    Tmpl,              \* Site.Tmpl: the names in the template set
    Pages,             \* Site.Pages: sequence of Page ids
    Prev,              \* Page.Prev of every Page (0: nil)
    Next,              \* Page.Next of every Page (0: nil)
    Indexes,           \* Site.Indexes: plural -> key -> Pages
    Sections,          \* Site.Sections: section -> Pages
    LastChange,        \* Site.Info.LastChange (0: the zero time)
    \* control
    pc,                \* the statement Build/Process/Render is at
    steps,             \* the calls made so far, in order
    processErr,        \* what Process returned
    todo,              \* what the loop of the running render sub-stage has left
    publishCalls,      \* the paths Target.Publish was called with
    aliasCalls,        \* the <<Page, alias>> Alias.Publish was called for
    returned,          \* what each finished render sub-stage returned
    renderErr,         \* what Render returned
    buildErr,          \* what Build returned
    homePages,         \* Data["Pages"] of the home page's node (<<>>: not set)
    \* one render call, statement by statement
    layouts,           \* its candidate layouts
    layout,            \* the layout findFirstLayout picked
    rpc,               \* where render itself is
    ppc,               \* where the template-execution goroutine is
    tpc,               \* where the transform goroutine is
    err,               \* the named result of render, shared with the first goroutine
    execResult,        \* what renderThing returned
    applyResult,       \* what transformer.Apply returned
    publishResult,     \* what Target.Publish returned
    result,            \* what render returned to its caller
    panicked,          \* the program was ended by a panic
    written,           \* writes done on <<renderWriter, trWriter>>
    closes,            \* Close calls made on <<renderWriter, trWriter>>
    sawEOF,            \* <<Apply, Publish>> read the end of their input
    \* the test of the absolute-URL rewriter (package transform)
    BaseURL,           \* tr.BaseURL
    tests,             \* the tests handed to apply
    testNo,            \* how many of them apply has gone through
    content,           \* test.content of the last one
    outBytes,          \* out.Bytes(): what tr.Apply wrote for it
    applyErr,          \* what tr.Apply returned for it
    tErrors            \* the t.Errorf calls made so far

inputVars == <<layoutDirExists, contentDirExists, layoutFiles, inputFiles,
               BuildDrafts, ConfigIndexes>>
siteVars == <<Source, Tmpl, Pages, Prev, Next, Indexes, Sections, LastChange>>
outVars == <<todo, publishCalls, aliasCalls, returned, renderErr, buildErr, homePages>>
buildVars == <<inputVars, siteVars, pc, steps, processErr, outVars>>
renderVars == <<layouts, layout, rpc, ppc, tpc, err, execResult, applyResult,
                publishResult, result, panicked, written, closes, sawEOF>>
testVars == <<BaseURL, tests, testNo, content, outBytes, applyErr, tErrors>>
vars == <<buildVars, renderVars, testVars>>

\* ------------------------------------------------------------- Pages
PageIds == 1..Len(inputFiles)

Date(p) == inputFiles[p].date

Section(p) == inputFiles[p].section

\* Page.GetParam(key): the Page's value for the field, nil when it has none.
GetParam(p, key) ==
    IF key \in DOMAIN inputFiles[p].params THEN inputFiles[p].params[key] ELSE NoParam

\* Pages.Sort(): newest first. sort.Sort is not stable, so any arrangement
\* with non-increasing dates may come out.
IsSorted(s) == \A i \in 1..(Len(s) - 1) : Date(s[i]) >= Date(s[i + 1])

IsPermutation(t, s) ==
    /\ Len(t) = Len(s)
    /\ \A x \in Range(s) \cup Range(t) : Count(x, t) = Count(x, s)

SortResults(s) ==
    {t \in [1..Len(s) -> Range(s)] : IsPermutation(t, s) /\ IsSorted(t)}

\* Index.Add(key, page): append the page to the key's collection.
IndexAdd(idx, key, p) ==
    IF key \in DOMAIN idx
    THEN [idx EXCEPT ![key] = Append(@, p)]
    ELSE idx @@ (key :> <<p>>)

\* Every key's collection sorted: the possible outcomes of the loop
\* "for k := range idx { idx[k].Sort() }".
SortedIndexes(idx) ==
    {f \in [DOMAIN idx -> UNION {SortResults(idx[k]) : k \in DOMAIN idx}] :
        \A k \in DOMAIN idx : f[k] \in SortResults(idx[k])}

\* ------------------------------------------------------------ Process
\* checkDirectories(): the error it returns.
checkDirectories ==
    IF ~layoutDirExists THEN ErrNoLayoutDir
    ELSE IF ~contentDirExists THEN ErrNoSourceDir
    ELSE Nil

\* initialize(), as called by Process, which drops its result: when the
\* directories are there the Source becomes the filesystem source.
initialize ==
    /\ pc = "initialize"
    /\ Source' = IF checkDirectories # Nil THEN Source ELSE SourceOf(inputFiles)
    /\ pc' = "prepTemplates"
    /\ steps' = Append(steps, "initialize")
    /\ UNCHANGED <<renderVars, testVars>>
    /\ UNCHANGED <<inputVars, Tmpl, Pages, Prev, Next, Indexes, Sections,
                   LastChange, processErr, outVars>>

\* prepTemplates(): a new template set loaded from the layout directory.
prepTemplates ==
    /\ pc = "prepTemplates"
    /\ Tmpl' = IF layoutDirExists THEN layoutFiles ELSE {}
    /\ pc' = "CreatePages"
    /\ steps' = Append(steps, "prepTemplates")
    /\ UNCHANGED <<renderVars, testVars>>
    /\ UNCHANGED <<inputVars, Source, Pages, Prev, Next, Indexes, Sections,
                   LastChange, processErr, outVars>>

\* The loop of CreatePages as it would be without the test of
\* "s.Config.BuildDrafts || !page.Draft".
RECURSIVE ReadFilesKeepingDrafts(_, _, _)
ReadFilesKeepingDrafts(files, i, acc) ==
    IF i > Len(files) THEN [pages |-> acc, err |-> Nil]
    ELSE IF files[i].parseErr THEN [pages |-> acc, err |-> ErrParse]
    ELSE ReadFilesKeepingDrafts(files, i + 1, Append(acc, i))

\* The loop of CreatePages over files[i..]: the Pages appended so far and the
\* error of the first file ReadFrom rejects.
RECURSIVE ReadFiles(_, _, _)
ReadFiles(files, i, acc) ==
    IF i > Len(files) THEN [pages |-> acc, err |-> Nil]
    ELSE IF files[i].parseErr THEN [pages |-> acc, err |-> ErrParse]
    ELSE IF BuildDrafts \/ ~files[i].draft
         THEN ReadFiles(files, i + 1, Append(acc, i))
         ELSE ReadFiles(files, i + 1, acc)

\* CreatePages() as it would be without its two checks of the Source.
CreatePagesUnchecked ==
    /\ pc = "CreatePages"
    /\ steps' = Append(steps, "CreatePages")
    /\ LET r == ReadFiles(Source.files, 1, Pages) IN
       IF r.err # Nil
       THEN /\ processErr' = r.err
            /\ pc' = "Process.return"
            /\ Pages' = r.pages
       ELSE /\ Pages' \in SortResults(r.pages)
            /\ pc' = "setupPrevNext"
            /\ UNCHANGED processErr
    /\ UNCHANGED <<renderVars, testVars>>
    /\ UNCHANGED <<inputVars, Source, Tmpl, Prev, Next, Indexes, Sections, LastChange,
                   outVars>>

\* CreatePages() as it would be without its "s.Pages.Sort()".
CreatePagesUnsorted ==
    /\ pc = "CreatePages"
    /\ steps' = Append(steps, "CreatePages")
    /\ IF Source.isNil \/ Len(Source.files) < 1
       THEN /\ processErr' = ErrNoSourceFiles
            /\ pc' = "Process.return"
            /\ UNCHANGED Pages
       ELSE LET r == ReadFiles(Source.files, 1, Pages) IN
            IF r.err # Nil
            THEN /\ processErr' = r.err
                 /\ pc' = "Process.return"
                 /\ Pages' = r.pages
            ELSE /\ Pages' = r.pages
                 /\ pc' = "setupPrevNext"
                 /\ UNCHANGED processErr
    /\ UNCHANGED <<renderVars, testVars>>
    /\ UNCHANGED <<inputVars, Source, Tmpl, Prev, Next, Indexes, Sections, LastChange,
                   outVars>>

\* CreatePages()
CreatePages ==
    /\ pc = "CreatePages"
    /\ steps' = Append(steps, "CreatePages")
    /\ IF Source.isNil \/ Len(Source.files) < 1
       THEN /\ processErr' = ErrNoSourceFiles
            /\ pc' = "Process.return"
            /\ UNCHANGED Pages
       ELSE LET r == ReadFiles(Source.files, 1, Pages) IN
            IF r.err # Nil
            THEN /\ processErr' = r.err
                 /\ pc' = "Process.return"
                 /\ Pages' = r.pages
            ELSE /\ Pages' \in SortResults(r.pages)
                 /\ pc' = "setupPrevNext"
                 /\ UNCHANGED processErr
    /\ UNCHANGED <<renderVars, testVars>>
    /\ UNCHANGED <<inputVars, Source, Tmpl, Prev, Next, Indexes, Sections, LastChange,
                   outVars>>

\* The loop of setupPrevNext as it would be with "i < len(s.Pages)-2".
RECURSIVE PrevNextLinksOffByOne(_, _, _, _)
PrevNextLinksOffByOne(pages, i, next, prev) ==
    IF i > Len(pages) THEN [next |-> next, prev |-> prev]
    ELSE PrevNextLinksOffByOne(pages, i + 1,
            IF i < Len(pages) - 1 THEN [next EXCEPT ![pages[i]] = pages[i + 1]] ELSE next,
            IF i > 1 THEN [prev EXCEPT ![pages[i]] = pages[i - 1]] ELSE prev)

\* setupPrevNext(): the loop over s.Pages from position i on, with the Next
\* and Prev links as they stand.
RECURSIVE PrevNextLinks(_, _, _, _)
PrevNextLinks(pages, i, next, prev) ==
    IF i > Len(pages) THEN [next |-> next, prev |-> prev]
    ELSE PrevNextLinks(pages, i + 1,
            IF i < Len(pages) THEN [next EXCEPT ![pages[i]] = pages[i + 1]] ELSE next,
            IF i > 1 THEN [prev EXCEPT ![pages[i]] = pages[i - 1]] ELSE prev)

setupPrevNext ==
    /\ pc = "setupPrevNext"
    /\ Next' = PrevNextLinks(Pages, 1, Next, Prev).next
    /\ Prev' = PrevNextLinks(Pages, 1, Next, Prev).prev
    /\ pc' = "BuildSiteMeta"
    /\ steps' = Append(steps, "setupPrevNext")
    /\ UNCHANGED <<renderVars, testVars>>
    /\ UNCHANGED <<inputVars, Source, Tmpl, Pages, Indexes, Sections, LastChange,
                   processErr, outVars>>

\* BuildSiteMeta: the inner loops "for _, idx := range v { Add(idx, p) }"
RECURSIVE AddKeys(_, _, _, _)
AddKeys(idx, v, i, p) ==
    IF i > Len(v) THEN idx ELSE AddKeys(IndexAdd(idx, v[i], p), v, i + 1, p)

\* The loop of BuildSiteMeta as it would be without the "v, ok :=
\* vals.([]string)" test: every value that is there is indexed.
RECURSIVE IndexPagesAnyShape(_, _, _, _)
IndexPagesAnyShape(idx, pages, i, plural) ==
    IF i > Len(pages) THEN idx
    ELSE LET vals == GetParam(pages[i], plural) IN
         IF vals.kind # "nil"
         THEN IndexPagesAnyShape(AddKeys(idx, vals.v, 1, pages[i]), pages, i + 1, plural)
         ELSE IndexPagesAnyShape(idx, pages, i + 1, plural)

\* "for _, p := range s.Pages": only a value that is a []string is indexed.
RECURSIVE IndexPages(_, _, _, _)
IndexPages(idx, pages, i, plural) ==
    IF i > Len(pages) THEN idx
    ELSE LET vals == GetParam(pages[i], plural) IN
         IF vals.kind = "[]string"
         THEN IndexPages(AddKeys(idx, vals.v, 1, pages[i]), pages, i + 1, plural)
         ELSE IndexPages(idx, pages, i + 1, plural)

\* The loop over s.Pages for the sections as it would be if it also made a
\* key for the section of every source file, the ones without a Page
\* included.
RECURSIVE SectionPagesOfFiles(_, _, _)
SectionPagesOfFiles(idx, pages, i) ==
    IF i > Len(pages)
    THEN [sec \in DOMAIN idx \cup {inputFiles[f].section : f \in PageIds} |->
            IF sec \in DOMAIN idx THEN idx[sec] ELSE <<>>]
    ELSE SectionPagesOfFiles(IndexAdd(idx, Section(pages[i]), pages[i]), pages, i + 1)

\* The loop over s.Pages for the sections as it would be if it left out a Page
\* that has a classification value of the wrong shape.
RECURSIVE SectionPagesValidOnly(_, _, _)
SectionPagesValidOnly(idx, pages, i) ==
    IF i > Len(pages) THEN idx
    ELSE IF \E pl \in {ConfigIndexes[sg] : sg \in DOMAIN ConfigIndexes} :
               GetParam(pages[i], pl).kind = "string"
         THEN SectionPagesValidOnly(idx, pages, i + 1)
         ELSE SectionPagesValidOnly(IndexAdd(idx, Section(pages[i]), pages[i]), pages, i + 1)

\* "for i, p := range s.Pages { s.Sections.Add(p.Section, s.Pages[i]) }"
RECURSIVE SectionPages(_, _, _)
SectionPages(idx, pages, i) ==
    IF i > Len(pages) THEN idx
    ELSE SectionPages(IndexAdd(idx, Section(pages[i]), pages[i]), pages, i + 1)

Plurals == {ConfigIndexes[s] : s \in DOMAIN ConfigIndexes}

\* BuildSiteMeta(); it always returns nil, and so Process does after it.
BuildSiteMeta ==
    /\ pc = "BuildSiteMeta"
    /\ Indexes' \in {f \in [Plurals -> UNION {SortedIndexes(IndexPages(<<>>, Pages, 1, pl)) : pl \in Plurals}] :
                        \A pl \in Plurals : f[pl] \in SortedIndexes(IndexPages(<<>>, Pages, 1, pl))}
    /\ Sections' \in SortedIndexes(SectionPages(<<>>, Pages, 1))
    /\ LastChange' = IF Len(Pages) = 0 THEN LastChange ELSE Date(Pages[1])
    /\ processErr' = Nil
    /\ pc' = "Process.return"
    /\ steps' = Append(steps, "BuildSiteMeta")
    /\ UNCHANGED <<renderVars, testVars>>
    /\ UNCHANGED <<inputVars, Source, Tmpl, Pages, Prev, Next, outVars>>


\* -------------------------------------------------------------- Build
\* Build(), line 94: the call of Process.
Build ==
    /\ pc = "Build"
    /\ pc' = "initialize"
    /\ steps' = Append(steps, "Process")
    /\ UNCHANGED <<renderVars, testVars>>
    /\ UNCHANGED <<inputVars, siteVars, processErr, outVars>>

\* ------------------------------------------------------- layout names
\* A template name is <<directory, file>>: <<"indexes", "tag">> is
\* "indexes/tag.html".
IndexLayout(singular) == <<"indexes", singular>>
IndexesLayout == <<"indexes", "indexes">>
SectionLayout(section) == <<"indexes", section>>
DefaultListLayout == <<"_default", "indexes">>
DefaultSingleLayout == <<"_default", "single">>
HomeLayout == <<"", "index">>
RSSLayout == <<"", "rss.xml">>
NotFoundLayout == <<"", "404">>
\* "__" + p.TargetPath(): the ad-hoc template of a Page that is its own layout.
SelfLayout(p) == <<"__", ToString(p)>>
\* Page.Layout(): the Page's own layout names, most specific first.
PageLayout(p) == <<<<Section(p), "single">>>>

Renderable(p) == inputFiles[p].renderable

Aliases(p) == inputFiles[p].aliases

\* findFirstLayout(layouts...): the first candidate the template set has, or
\* the empty name.
NoLayout == <<"", "">>

\* The loop of findFirstLayout as it would be without its "return": the last
\* candidate the template set has wins.
RECURSIVE findLastLayoutFrom(_, _, _)
findLastLayoutFrom(names, i, tmpl) ==
    IF i > Len(names) THEN NoLayout
    ELSE LET rest == findLastLayoutFrom(names, i + 1, tmpl) IN
         IF rest # NoLayout THEN rest
         ELSE IF names[i] \in tmpl THEN names[i]
         ELSE NoLayout

RECURSIVE findFirstLayoutFrom(_, _, _)
findFirstLayoutFrom(names, i, tmpl) ==
    IF i > Len(names) THEN NoLayout
    ELSE IF names[i] \in tmpl THEN names[i]
    ELSE findFirstLayoutFrom(names, i + 1, tmpl)

findFirstLayout(names, tmpl) == findFirstLayoutFrom(names, 1, tmpl)

\* ------------------------------------------------------ a render call
ErrPublish == "publish error"
ErrAlias == "alias publish error"
ErrPermalink == "permalink error"
ErrTemplateParse == "template parse error"

\* The panic of the template-execution goroutine (render, line 573), in the
\* place of the error of the call it ends the program in.
Panics == "panic"

\* render(d, out, layouts...) as its caller sees it: without a layout it
\* returns nil and publishes nothing; with one it calls Target.Publish and
\* returns nil or an error, unless its template goroutine panics, before or
\* after the call of Publish. (A panic that comes after render has returned
\* ends the program later, after steps Build also takes without it.)
render(names, tmpl) ==
    IF findFirstLayout(names, tmpl) = NoLayout
    THEN {[err |-> Nil, published |-> FALSE]}
    ELSE [err : {Nil, ErrPublish}, published : {TRUE}] \cup
         [err : {Panics}, published : BOOLEAN]

\* The render calls of one loop body, calls[i..], each [out, layouts], made in
\* order up to the first that returns an error.
RECURSIVE RenderCalls(_, _, _)
RenderCalls(calls, i, tmpl) ==
    IF i > Len(calls) THEN {[err |-> Nil, pubs |-> {}]}
    ELSE UNION {
        LET pub == IF o.published THEN {calls[i].out} ELSE {} IN
        IF o.err # Nil
        THEN {[err |-> o.err, pubs |-> pub]}
        ELSE {[err |-> r.err, pubs |-> pub \cup r.pubs] :
                 r \in RenderCalls(calls, i + 1, tmpl)}
        : o \in render(calls[i].layouts, tmpl)}

Call(out, names) == [out |-> out, layouts |-> names]

\* ------------------------------------------------------------- Render
Orders(S) == {t \in [1..Cardinality(S) -> S] : Range(t) = S}

\* "for _, p := range s.Pages { for _, a := range p.Aliases"
RECURSIVE AliasItems(_, _)
AliasItems(pages, i) ==
    IF i > Len(pages) THEN <<>>
    ELSE [j \in 1..Len(Aliases(pages[i])) |-> <<ToString(pages[i]), Aliases(pages[i])[j]>>]
         \o AliasItems(pages, i + 1)

RECURSIVE Flatten(_, _)
Flatten(ss, i) == IF i > Len(ss) THEN <<>> ELSE ss[i] \o Flatten(ss, i + 1)

\* "for singular, plural := range s.Config.Indexes { for k, o := range
\* s.Indexes[plural]": each map is ranged over in any order. An item is
\* <<singular, k>>.
IndexItems ==
    LET keys(s) == DOMAIN Indexes[ConfigIndexes[s]]
        inner == {f \in [DOMAIN ConfigIndexes ->
                           UNION {Orders(keys(s)) : s \in DOMAIN ConfigIndexes}] :
                     \A s \in DOMAIN ConfigIndexes : f[s] \in Orders(keys(s))}
    IN {Flatten([i \in 1..Len(so) |->
                    [j \in 1..Len(f[so[i]]) |-> <<so[i], f[so[i]][j]>>]], 1) :
           so \in Orders(DOMAIN ConfigIndexes), f \in inner}

\* "if s.Tmpl.Lookup(layout) != nil { for singular, plural := range
\* s.Config.Indexes"
IndexesIndexesItems ==
    IF IndexesLayout \in Tmpl THEN Orders(DOMAIN ConfigIndexes) ELSE {<<>>}

\* "for section, data := range s.Sections"
ListItems == Orders(DOMAIN Sections)

\* A sub-stage of Render starts: its loop has all its items left.
Enter(stage, items) ==
    /\ pc' = stage
    /\ todo' \in items
    /\ steps' = Append(steps, stage)

\* A sub-stage returns e and Render returns it in turn.
Fail(e) ==
    /\ pc' = "Render.return"
    /\ todo' = <<>>
    /\ renderErr' = e
    /\ UNCHANGED steps

\* Build() as it would be if it dropped the error of Process.
BuildAfterProcessIgnoringErr ==
    /\ pc = "Process.return"
    /\ Enter("RenderAliases", {AliasItems(Pages, 1)})
    /\ UNCHANGED buildErr
    /\ UNCHANGED <<renderVars, testVars>>
    /\ UNCHANGED <<inputVars, siteVars, processErr, homePages, publishCalls, aliasCalls,
                   renderErr, returned>>

\* Build(), lines 94-97: Process has returned.
BuildAfterProcess ==
    /\ pc = "Process.return"
    /\ IF processErr # Nil
       THEN /\ buildErr' = processErr
            /\ pc' = "done"
            /\ UNCHANGED <<todo, steps>>
       ELSE /\ Enter("RenderAliases", {AliasItems(Pages, 1)})
            /\ UNCHANGED buildErr
    /\ UNCHANGED <<renderVars, testVars>>
    /\ UNCHANGED <<inputVars, siteVars, processErr, homePages, publishCalls, aliasCalls,
                   renderErr, returned>>

\* RenderAliases() as it would be if it returned nil after its first alias.
RenderAliasesFirstOnly ==
    /\ pc = "RenderAliases"
    /\ IF todo = <<>>
       THEN /\ Enter("ProcessShortcodes", {<<>>})
            /\ returned' = returned @@ ("RenderAliases" :> Nil)
            /\ UNCHANGED <<aliasCalls, renderErr>>
       ELSE \E e \in {Nil, ErrPermalink, ErrAlias} :
               /\ aliasCalls' = IF e = ErrPermalink THEN aliasCalls
                                ELSE aliasCalls \cup {Head(todo)}
               /\ IF e # Nil
                  THEN Fail(e) /\ returned' = returned @@ ("RenderAliases" :> e)
                  ELSE /\ Enter("ProcessShortcodes", {<<>>})
                       /\ returned' = returned @@ ("RenderAliases" :> Nil)
                       /\ UNCHANGED renderErr
    /\ UNCHANGED <<renderVars, testVars>>
    /\ UNCHANGED <<inputVars, siteVars, processErr, homePages, publishCalls, buildErr>>

\* RenderAliases(): one alias of one Page, or the end of the loops.
RenderAliases ==
    /\ pc = "RenderAliases"
    /\ IF todo = <<>>
       THEN /\ Enter("ProcessShortcodes", {<<>>})
            /\ returned' = returned @@ ("RenderAliases" :> Nil)
            /\ UNCHANGED <<aliasCalls, renderErr>>
       ELSE \E e \in {Nil, ErrPermalink, ErrAlias} :
               /\ aliasCalls' = IF e = ErrPermalink THEN aliasCalls
                                ELSE aliasCalls \cup {Head(todo)}
               /\ IF e # Nil
                  THEN Fail(e) /\ returned' = returned @@ ("RenderAliases" :> e)
                  ELSE todo' = Tail(todo) /\ UNCHANGED <<pc, steps, renderErr, returned>>
    /\ UNCHANGED <<renderVars, testVars>>
    /\ UNCHANGED <<inputVars, siteVars, processErr, homePages, publishCalls, buildErr>>

\* ProcessShortcodes(): rewrites Content and Summary of every Page, which this
\* model does not hold; it returns nothing.
ProcessShortcodes ==
    /\ pc = "ProcessShortcodes"
    /\ \E items \in IndexItems : Enter("RenderIndexes", {items})
    /\ UNCHANGED <<renderVars, testVars>>
    /\ UNCHANGED <<inputVars, siteVars, processErr, homePages, publishCalls, aliasCalls,
                   renderErr, buildErr, returned>>

\* The body of a loop of a render sub-stage made its render calls with
\* result r: the loop goes on, or the sub-stage returns the error.
AfterCalls(stage, r) ==
    /\ publishCalls' = publishCalls \cup r.pubs
    /\ IF r.err = Panics
       THEN pc' = "panic" /\ UNCHANGED <<todo, steps, renderErr, returned>>
       ELSE IF r.err # Nil
       THEN Fail(r.err) /\ returned' = returned @@ (stage :> r.err)
       ELSE todo' = Tail(todo) /\ UNCHANGED <<pc, steps, renderErr, returned>>

\* An index out of range ends the program.
Crash ==
    /\ pc' = "index out of range"
    /\ UNCHANGED <<todo, steps, renderErr, returned, publishCalls>>

\* RenderIndexes(): one key of one index, or the end of the loops.
RenderIndexes ==
    /\ pc = "RenderIndexes"
    /\ IF todo = <<>>
       THEN /\ Enter("RenderIndexesIndexes", IndexesIndexesItems)
            /\ returned' = returned @@ ("RenderIndexes" :> Nil)
            /\ UNCHANGED <<publishCalls, renderErr>>
       ELSE LET singular == Head(todo)[1]
                plural == ConfigIndexes[singular]
                k == Head(todo)[2]
                o == Indexes[plural][k]
                calls == <<Call(<<plural, k, "html">>, <<IndexLayout(singular)>>)>> \o
                         (IF RSSLayout \in Tmpl
                          THEN <<Call(<<plural, k, "xml">>, <<RSSLayout>>)>> ELSE <<>>)
            IN IF Len(o) = 0 THEN Crash
               ELSE \E r \in RenderCalls(calls, 1, Tmpl) : AfterCalls("RenderIndexes", r)
    /\ UNCHANGED <<renderVars, testVars>>
    /\ UNCHANGED <<inputVars, siteVars, processErr, homePages, aliasCalls, buildErr>>

\* RenderIndexesIndexes(): one index, or the end of the loop. Render drops
\* what it returns and goes on to RenderLists.
RenderIndexesIndexes ==
    /\ pc = "RenderIndexesIndexes"
    /\ IF todo = <<>>
       THEN /\ Enter("RenderLists", ListItems)
            /\ returned' = returned @@ ("RenderIndexesIndexes" :> Nil)
            /\ UNCHANGED publishCalls
       ELSE LET plural == ConfigIndexes[Head(todo)]
                calls == <<Call(<<plural, "index", "html">>, <<IndexesLayout>>)>>
            IN \E r \in RenderCalls(calls, 1, Tmpl) :
                  /\ publishCalls' = publishCalls \cup r.pubs
                  /\ IF r.err = Panics
                     THEN pc' = "panic" /\ UNCHANGED <<todo, steps, returned>>
                     ELSE IF r.err # Nil
                     THEN /\ Enter("RenderLists", ListItems)
                          /\ returned' = returned @@ ("RenderIndexesIndexes" :> r.err)
                     ELSE todo' = Tail(todo) /\ UNCHANGED <<pc, steps, returned>>
    /\ UNCHANGED <<renderVars, testVars>>
    /\ UNCHANGED <<inputVars, siteVars, processErr, homePages, aliasCalls, renderErr, buildErr>>

\* RenderLists(): one section, or the end of the loop.
RenderLists ==
    /\ pc = "RenderLists"
    /\ IF todo = <<>>
       THEN /\ Enter("RenderPages", {[i \in 1..Len(Pages) |-> ToString(Pages[i])]})
            /\ returned' = returned @@ ("RenderLists" :> Nil)
            /\ UNCHANGED <<publishCalls, renderErr>>
       ELSE LET section == Head(todo)
                data == Sections[section]
                calls == <<Call(<<section, "", "">>,
                                <<SectionLayout(section), DefaultListLayout>>)>> \o
                         (IF RSSLayout \in Tmpl
                          THEN <<Call(<<section, "", "xml">>, <<RSSLayout>>)>> ELSE <<>>)
            IN IF Len(data) = 0 THEN Crash
               ELSE \E r \in RenderCalls(calls, 1, Tmpl) : AfterCalls("RenderLists", r)
    /\ UNCHANGED <<renderVars, testVars>>
    /\ UNCHANGED <<inputVars, siteVars, processErr, homePages, aliasCalls, buildErr>>

PageOf(item) == CHOOSE p \in PageIds : ToString(p) = item

\* RenderPages(): one Page, or the end of the loop. A Page that is not
\* renderable is parsed into a template of its own and rendered with it.
RenderPages ==
    /\ pc = "RenderPages"
    /\ IF todo = <<>>
       THEN /\ Enter("RenderHomePage", {<<>>})
            /\ returned' = returned @@ ("RenderPages" :> Nil)
            /\ UNCHANGED <<publishCalls, renderErr, Tmpl>>
       ELSE LET p == PageOf(Head(todo))
                out == <<"page", Head(todo), "html">>
            IN IF ~Renderable(p)
               THEN \E parsed \in BOOLEAN :
                       IF ~parsed
                       THEN /\ Fail(ErrTemplateParse)
                            /\ returned' = returned @@ ("RenderPages" :> ErrTemplateParse)
                            /\ UNCHANGED <<publishCalls, Tmpl>>
                       ELSE /\ Tmpl' = Tmpl \cup {SelfLayout(p)}
                            /\ \E r \in RenderCalls(<<Call(out, <<SelfLayout(p)>>)>>, 1, Tmpl') :
                                  AfterCalls("RenderPages", r)
               ELSE /\ UNCHANGED Tmpl
                    /\ \E r \in RenderCalls(
                              <<Call(out, PageLayout(p) \o <<DefaultSingleLayout>>)>>, 1, Tmpl) :
                          AfterCalls("RenderPages", r)
    /\ UNCHANGED <<renderVars, testVars>>
    /\ UNCHANGED <<inputVars, Source, Pages, Prev, Next, Indexes, Sections, LastChange,
                   processErr, homePages, aliasCalls, buildErr>>

\* Most Pages the home page's node is given.
HomePageLimit == 9

\* RenderHomePage, lines 487-494, as it would be with "len(s.Pages) < 11".
HomePagesDataTen(pages) ==
    IF Len(pages) > 0
    THEN IF Len(pages) < HomePageLimit + 2 THEN pages ELSE SubSeq(pages, 1, HomePageLimit)
    ELSE <<>>

\* RenderHomePage, lines 487-494: n.Data["Pages"], which is left unset when
\* there are no Pages (a template ranges over nothing either way).
HomePagesData(pages) ==
    IF Len(pages) > 0
    THEN IF Len(pages) < HomePageLimit THEN pages ELSE SubSeq(pages, 1, HomePageLimit)
    ELSE <<>>

\* RenderHomePage() as it would be with the 404 page inside the "if" of the
\* feed.
RenderHomePage404WithFeed ==
    /\ pc = "RenderHomePage"
    /\ homePages' = HomePagesData(Pages)
    /\ LET calls == <<Call(<<"", "", "">>, <<HomeLayout>>)>> \o
                    (IF RSSLayout \in Tmpl
                     THEN <<Call(<<"", "", "xml">>, <<RSSLayout>>)>> \o
                          (IF NotFoundLayout \in Tmpl
                           THEN <<Call(<<"", "404", "html">>, <<NotFoundLayout>>)>>
                           ELSE <<>>)
                     ELSE <<>>)
       IN \E r \in RenderCalls(calls, 1, Tmpl) :
             /\ publishCalls' = publishCalls \cup r.pubs
             /\ IF r.err = Panics
                THEN pc' = "panic" /\ UNCHANGED <<todo, steps, renderErr, returned>>
                ELSE Fail(r.err) /\ returned' = returned @@ ("RenderHomePage" :> r.err)
    /\ UNCHANGED <<renderVars, testVars>>
    /\ UNCHANGED <<inputVars, siteVars, processErr, aliasCalls, buildErr>>

\* RenderHomePage(), and with it the end of Render.
RenderHomePage ==
    /\ pc = "RenderHomePage"
    /\ homePages' = HomePagesData(Pages)
    /\ LET calls == <<Call(<<"", "", "">>, <<HomeLayout>>)>> \o
                    (IF RSSLayout \in Tmpl
                     THEN <<Call(<<"", "", "xml">>, <<RSSLayout>>)>> ELSE <<>>) \o
                    (IF NotFoundLayout \in Tmpl
                     THEN <<Call(<<"", "404", "html">>, <<NotFoundLayout>>)>> ELSE <<>>)
       IN \E r \in RenderCalls(calls, 1, Tmpl) :
             /\ publishCalls' = publishCalls \cup r.pubs
             /\ IF r.err = Panics
                THEN pc' = "panic" /\ UNCHANGED <<todo, steps, renderErr, returned>>
                ELSE Fail(r.err) /\ returned' = returned @@ ("RenderHomePage" :> r.err)
    /\ UNCHANGED <<renderVars, testVars>>
    /\ UNCHANGED <<inputVars, siteVars, processErr, aliasCalls, buildErr>>

\* Build(), lines 97-104: Render has returned.
BuildAfterRender ==
    /\ pc = "Render.return"
    /\ buildErr' = renderErr
    /\ pc' = "done"
    /\ UNCHANGED <<renderVars, testVars>>
    /\ UNCHANGED <<inputVars, siteVars, processErr, homePages, steps, todo, publishCalls,
                   aliasCalls, returned, renderErr>>

\* ------------------------------------- a render call, step by step
\* Most writes a template execution or a transformer makes on its pipe.
MaxChunks == 1

ErrExecute == "template execution error"
ErrLayoutNotFound == "Layout not found"
ErrTransform == "transform error"

\* render(), lines 551-557: without a layout it returns its nil result.
renderFindLayout ==
    /\ rpc = "render"
    /\ ~panicked
    /\ layout' = findFirstLayout(layouts, Tmpl)
    /\ IF layout' = NoLayout
       THEN rpc' = "returned" /\ result' = err
       ELSE rpc' = "go renderThing" /\ UNCHANGED result
    /\ UNCHANGED <<layouts, ppc, tpc, err, execResult, applyResult, publishResult,
                   panicked, written, closes, sawEOF>>
    /\ UNCHANGED <<buildVars, testVars>>

\* render(), lines 569-570: the first goroutine starts.
renderGoRenderThing ==
    /\ rpc = "go renderThing"
    /\ ~panicked
    /\ ppc' = "renderThing"
    /\ rpc' = "go Apply"
    /\ UNCHANGED <<layouts, layout, tpc, err, execResult, applyResult, publishResult,
                   result, panicked, written, closes, sawEOF>>
    /\ UNCHANGED <<buildVars, testVars>>

\* render(), lines 577-578: the second goroutine starts, and render calls
\* WritePublic, which calls Target.Publish.
renderGoApply ==
    /\ rpc = "go Apply"
    /\ ~panicked
    /\ tpc' = "Apply"
    /\ rpc' = "Publish"
    /\ UNCHANGED <<layouts, layout, ppc, err, execResult, applyResult, publishResult,
                   result, panicked, written, closes, sawEOF>>
    /\ UNCHANGED <<buildVars, testVars>>

\* renderThing(), lines 597-600: a missing layout returns with the writer
\* left open.
renderThing ==
    /\ ppc = "renderThing"
    /\ ~panicked
    /\ IF layout \notin Tmpl
       THEN ppc' = "assign" /\ execResult' = ErrLayoutNotFound
       ELSE ppc' = "Execute" /\ UNCHANGED execResult
    /\ UNCHANGED <<layouts, layout, rpc, tpc, err, applyResult, publishResult, result,
                   panicked, written, closes, sawEOF>>
    /\ UNCHANGED <<buildVars, testVars>>

\* ExecuteTemplate (line 601) calls Write on renderWriter: it blocks until
\* the other end reads.
ExecuteWrite ==
    /\ ppc = "Execute"
    /\ ~panicked
    /\ written[1] < MaxChunks
    /\ ppc' = "Execute.Write"
    /\ UNCHANGED <<layouts, layout, rpc, tpc, err, execResult, applyResult,
                   publishResult, result, panicked, written, closes, sawEOF>>
    /\ UNCHANGED <<buildVars, testVars>>

\* ExecuteTemplate returns, with an error or without, and the deferred
\* w.Close() (line 600) closes renderWriter.
ExecuteReturn ==
    /\ ppc = "Execute"
    /\ ~panicked
    /\ execResult' \in {Nil, ErrExecute}
    /\ closes' = [closes EXCEPT ![1] = @ + 1]
    /\ ppc' = "assign"
    /\ UNCHANGED <<layouts, layout, rpc, tpc, err, applyResult, publishResult, result,
                   panicked, written, sawEOF>>
    /\ UNCHANGED <<buildVars, testVars>>

\* Line 571: the goroutine stores what renderThing returned in render's err.
goAssignErr ==
    /\ ppc = "assign"
    /\ ~panicked
    /\ err' = execResult
    /\ ppc' = "check"
    /\ UNCHANGED <<layouts, layout, rpc, tpc, execResult, applyResult, publishResult,
                   result, panicked, written, closes, sawEOF>>
    /\ UNCHANGED <<buildVars, testVars>>

\* Lines 572-574: the goroutine reads err back and panics when it is not nil.
goCheckErr ==
    /\ ppc = "check"
    /\ ~panicked
    /\ IF err # Nil
       THEN ppc' = "panic" /\ panicked' = TRUE
       ELSE ppc' = "done" /\ UNCHANGED panicked
    /\ UNCHANGED <<layouts, layout, rpc, tpc, err, execResult, applyResult,
                   publishResult, result, written, closes, sawEOF>>
    /\ UNCHANGED <<buildVars, testVars>>

\* transformer.Apply (line 579) reads renderReader while a Write is waiting
\* on the other end: the Write returns.
ApplyRead ==
    /\ tpc = "Apply"
    /\ ppc = "Execute.Write"
    /\ ~panicked
    /\ written' = [written EXCEPT ![1] = @ + 1]
    /\ ppc' = "Execute"
    /\ UNCHANGED <<layouts, layout, rpc, tpc, err, execResult, applyResult,
                   publishResult, result, panicked, closes, sawEOF>>
    /\ UNCHANGED <<buildVars, testVars>>

\* transformer.Apply reads renderReader after renderWriter was closed: EOF.
ApplyReadEOF ==
    /\ tpc = "Apply"
    /\ ~panicked
    /\ closes[1] > 0
    /\ ppc # "Execute.Write"
    /\ ~sawEOF[1]
    /\ sawEOF' = [sawEOF EXCEPT ![1] = TRUE]
    /\ UNCHANGED <<layouts, layout, rpc, ppc, tpc, err, execResult, applyResult,
                   publishResult, result, panicked, written, closes>>
    /\ UNCHANGED <<buildVars, testVars>>

\* transformer.Apply calls Write on trWriter: it blocks until Publish reads.
ApplyWrite ==
    /\ tpc = "Apply"
    /\ ~panicked
    /\ written[2] < MaxChunks
    /\ tpc' = "Apply.Write"
    /\ UNCHANGED <<layouts, layout, rpc, ppc, err, execResult, applyResult,
                   publishResult, result, panicked, written, closes, sawEOF>>
    /\ UNCHANGED <<buildVars, testVars>>

\* transformer.Apply returns: nil once its input is at its end, an error at
\* any point. The goroutine drops the result (line 579).
ApplyReturn ==
    /\ tpc = "Apply"
    /\ ~panicked
    /\ \E e \in {Nil, ErrTransform} :
          /\ e = Nil => sawEOF[1]
          /\ applyResult' = e
    /\ tpc' = "Close"
    /\ UNCHANGED <<layouts, layout, rpc, ppc, err, execResult, publishResult, result,
                   panicked, written, closes, sawEOF>>
    /\ UNCHANGED <<buildVars, testVars>>

\* Line 580: trWriter.Close().
trWriterClose ==
    /\ tpc = "Close"
    /\ ~panicked
    /\ closes' = [closes EXCEPT ![2] = @ + 1]
    /\ tpc' = "done"
    /\ UNCHANGED <<layouts, layout, rpc, ppc, err, execResult, applyResult,
                   publishResult, result, panicked, written, sawEOF>>
    /\ UNCHANGED <<buildVars, testVars>>

\* Target.Publish (WritePublic, line 624) reads trReader while a Write is
\* waiting on the other end: the Write returns.
PublishRead ==
    /\ rpc = "Publish"
    /\ tpc = "Apply.Write"
    /\ ~panicked
    /\ written' = [written EXCEPT ![2] = @ + 1]
    /\ tpc' = "Apply"
    /\ UNCHANGED <<layouts, layout, rpc, ppc, err, execResult, applyResult,
                   publishResult, result, panicked, closes, sawEOF>>
    /\ UNCHANGED <<buildVars, testVars>>

\* Target.Publish reads trReader after trWriter was closed: EOF.
PublishReadEOF ==
    /\ rpc = "Publish"
    /\ ~panicked
    /\ closes[2] > 0
    /\ ~sawEOF[2]
    /\ sawEOF' = [sawEOF EXCEPT ![2] = TRUE]
    /\ UNCHANGED <<layouts, layout, rpc, ppc, tpc, err, execResult, applyResult,
                   publishResult, result, panicked, written, closes>>
    /\ UNCHANGED <<buildVars, testVars>>

\* Target.Publish returns: nil once its input is at its end, an error at any
\* point, also before it read anything.
PublishReturn ==
    /\ rpc = "Publish"
    /\ ~panicked
    /\ \E e \in {Nil, ErrPublish} :
          /\ e = Nil => sawEOF[2]
          /\ publishResult' = e
    /\ rpc' = "return"
    /\ UNCHANGED <<layouts, layout, ppc, tpc, err, execResult, applyResult, result,
                   panicked, written, closes, sawEOF>>
    /\ UNCHANGED <<buildVars, testVars>>

\* Line 583, "return s.WritePublic(...)": the result is stored in err, which
\* lives on the heap because the first goroutine uses it ...
renderReturnStore ==
    /\ rpc = "return"
    /\ ~panicked
    /\ err' = publishResult
    /\ rpc' = "return.load"
    /\ UNCHANGED <<layouts, layout, ppc, tpc, execResult, applyResult, publishResult,
                   result, panicked, written, closes, sawEOF>>
    /\ UNCHANGED <<buildVars, testVars>>

\* ... and the caller gets what err holds when render leaves.
renderReturnLoad ==
    /\ rpc = "return.load"
    /\ ~panicked
    /\ result' = err
    /\ rpc' = "returned"
    /\ UNCHANGED <<layouts, layout, ppc, tpc, err, execResult, applyResult,
                   publishResult, panicked, written, closes, sawEOF>>
    /\ UNCHANGED <<buildVars, testVars>>

NextRender ==
    \/ renderFindLayout
    \/ renderGoRenderThing
    \/ renderGoApply
    \/ renderThing
    \/ ExecuteWrite
    \/ ExecuteReturn
    \/ goAssignErr
    \/ goCheckErr
    \/ ApplyRead
    \/ ApplyReadEOF
    \/ ApplyWrite
    \/ ApplyReturn
    \/ trWriterClose
    \/ PublishRead
    \/ PublishReadEOF
    \/ PublishReturn
    \/ renderReturnStore
    \/ renderReturnLoad

\* ----------------------------------------------------- specifications
\* What a source file can be: its section, and the Page ReadFrom parses out
\* of it (or a parse error).
Dates == {1, 2}
SectionNames == {"post", "doc"}
TagValues == {NoParam, BareString("x"), Strings(<<>>), Strings(<<"x">>),
              Strings(<<"x", "y">>), Strings(<<"x", "x">>)}
BadFile == [section |-> "post", parseErr |-> TRUE, date |-> 1, draft |-> FALSE,
            params |-> [tags |-> NoParam], aliases |-> <<>>, renderable |-> TRUE]

\* No render call is being followed statement by statement.
NoRenderCall ==
    /\ layouts = <<>>
    /\ layout = NoLayout
    /\ rpc = "none"
    /\ ppc = "none"
    /\ tpc = "none"
    /\ err = Nil
    /\ execResult = Nil
    /\ applyResult = Nil
    /\ publishResult = Nil
    /\ result = Nil
    /\ panicked = FALSE
    /\ written = <<0, 0>>
    /\ closes = <<0, 0>>
    /\ sawEOF = <<FALSE, FALSE>>

\* No test of the rewriter is run.
NoTest ==
    /\ BaseURL = <<>>
    /\ tests = <<>>
    /\ testNo = 0
    /\ content = <<>>
    /\ outBytes = <<>>
    /\ applyErr = Nil
    /\ tErrors = {}

\* A Site as constructed, before Build or Process.
SiteInit ==
    /\ NoTest
    /\ Tmpl = {}
    /\ NoRenderCall
    /\ Pages = <<>>
    /\ Prev = [p \in PageIds |-> 0]
    /\ Next = [p \in PageIds |-> 0]
    /\ Indexes = <<>>
    /\ Sections = <<>>
    /\ LastChange = 0
    /\ steps = <<>>
    /\ processErr = Nil
    /\ todo = <<>>
    /\ publishCalls = {}
    /\ aliasCalls = {}
    /\ returned = <<>>
    /\ renderErr = Nil
    /\ buildErr = Nil
    /\ homePages = <<>>

\* Process() on a fresh Site whose directories exist: every list of source
\* files with their dates, drafts, sections and parse errors.
ProcessFiles ==
    [section : SectionNames, parseErr : {FALSE}, date : Dates, draft : BOOLEAN,
     params : [{"tags"} -> {NoParam, Strings(<<"x">>)}], aliases : {<<>>},
     renderable : {TRUE}] \cup {BadFile}

InitProcess ==
    /\ layoutDirExists = TRUE
    /\ contentDirExists = TRUE
    /\ layoutFiles = {}
    /\ inputFiles \in SeqsUpTo(ProcessFiles, MaxFiles)
    /\ BuildDrafts \in BOOLEAN
    /\ ConfigIndexes = [tag |-> "tags"]
    /\ Source = NoSource
    /\ SiteInit
    /\ pc = "initialize"

NextProcess ==
    \/ initialize
    \/ prepTemplates
    \/ CreatePages
    \/ setupPrevNext
    \/ BuildSiteMeta

SpecProcess == InitProcess /\ [][NextProcess]_vars

\* Process() over every shape of the classification values of the Pages.
MetaFiles ==
    [section : SectionNames, parseErr : {FALSE}, date : Dates, draft : BOOLEAN,
     params : [{"tags"} -> TagValues], aliases : {<<>>}, renderable : {TRUE}]

InitMeta ==
    /\ layoutDirExists = TRUE
    /\ contentDirExists = TRUE
    /\ layoutFiles = {}
    /\ inputFiles \in SeqsUpTo(MetaFiles, MaxFiles)
    /\ BuildDrafts = FALSE
    /\ ConfigIndexes = [tag |-> "tags"]
    /\ Source = NoSource
    /\ SiteInit
    /\ pc = "initialize"

SpecMeta == InitMeta /\ [][NextProcess]_vars

\* Source files in the order of their dates, oldest first: sorting them
\* newest first has one outcome.
Dated(files) == [i \in DOMAIN files |-> [files[i] EXCEPT !.date = i]]

\* Build() on a fresh Site: the directories may be missing, a Source may have
\* been set beforehand, the layout directory holds every layout or none.
AllLayouts ==
    {IndexLayout("tag"), IndexesLayout, SectionLayout("post"), DefaultListLayout,
     <<"post", "single">>, DefaultSingleLayout, HomeLayout, RSSLayout, NotFoundLayout}

BuildFiles ==
    [section : {"post"}, parseErr : {FALSE}, date : {1}, draft : BOOLEAN,
     params : [{"tags"} -> {NoParam, Strings(<<"x">>)}], aliases : {<<>>, <<"old">>},
     renderable : {TRUE}]
    \cup {BadFile}
    \cup {[section |-> "post", parseErr |-> FALSE, date |-> 1, draft |-> FALSE,
           params |-> [tags |-> NoParam], aliases |-> <<>>, renderable |-> FALSE]}

Init ==
    /\ layoutDirExists \in BOOLEAN
    /\ contentDirExists \in BOOLEAN
    /\ layoutFiles \in {AllLayouts, {}}
    /\ inputFiles \in {Dated(fs) : fs \in SeqsUpTo(BuildFiles, MaxFiles)}
    /\ BuildDrafts \in BOOLEAN
    /\ ConfigIndexes = [tag |-> "tags"]
    /\ Source \in {NoSource, SourceOf(inputFiles)}
    /\ SiteInit
    /\ pc = "Build"

NextBuild ==
    \/ Build
    \/ initialize
    \/ prepTemplates
    \/ CreatePages
    \/ setupPrevNext
    \/ BuildSiteMeta
    \/ BuildAfterProcess
    \/ RenderAliases
    \/ ProcessShortcodes
    \/ RenderIndexes
    \/ RenderIndexesIndexes
    \/ RenderLists
    \/ RenderPages
    \/ RenderHomePage
    \/ BuildAfterRender

Spec == Init /\ [][NextBuild]_vars

\* Build() on a fresh Site whose directories exist: the layout directory
\* holds any set of the layouts the render sub-stages look for.
LayoutFiles ==
    {[section |-> "post", parseErr |-> FALSE, date |-> 1, draft |-> FALSE,
      params |-> [tags |-> Strings(<<"x">>)], aliases |-> <<"old">>, renderable |-> TRUE],
     [section |-> "post", parseErr |-> FALSE, date |-> 1, draft |-> FALSE,
      params |-> [tags |-> NoParam], aliases |-> <<>>, renderable |-> FALSE]}

InitLayouts ==
    /\ layoutDirExists = TRUE
    /\ contentDirExists = TRUE
    /\ layoutFiles \in SUBSET AllLayouts
    /\ inputFiles \in {Dated(fs) : fs \in SeqsUpTo(LayoutFiles, MaxFiles)}
    /\ BuildDrafts = FALSE
    /\ ConfigIndexes = [tag |-> "tags"]
    /\ Source = NoSource
    /\ SiteInit
    /\ pc = "Build"

SpecLayouts == InitLayouts /\ [][NextBuild]_vars

\* One render call of a content Page, on a Site whose template set holds any
\* of the Page's candidate layouts.
InitRender ==
    /\ NoTest
    /\ layoutDirExists = TRUE
    /\ contentDirExists = TRUE
    /\ layoutFiles \in SUBSET {<<"post", "single">>, DefaultSingleLayout}
    /\ inputFiles = <<>>
    /\ BuildDrafts = FALSE
    /\ ConfigIndexes = [tag |-> "tags"]
    /\ Source = NoSource
    /\ Tmpl = layoutFiles
    /\ Pages = <<>>
    /\ Prev = <<>>
    /\ Next = <<>>
    /\ Indexes = <<>>
    /\ Sections = <<>>
    /\ LastChange = 0
    /\ steps = <<>>
    /\ processErr = Nil
    /\ todo = <<>>
    /\ publishCalls = {}
    /\ aliasCalls = {}
    /\ returned = <<>>
    /\ renderErr = Nil
    /\ buildErr = Nil
    /\ homePages = <<>>
    /\ pc = "render"
    /\ layouts = <<<<"post", "single">>, DefaultSingleLayout>>
    /\ layout = NoLayout
    /\ rpc = "render"
    /\ ppc = "none"
    /\ tpc = "none"
    /\ err = Nil
    /\ execResult = Nil
    /\ applyResult = Nil
    /\ publishResult = Nil
    /\ result = Nil
    /\ panicked = FALSE
    /\ written = <<0, 0>>
    /\ closes = <<0, 0>>
    /\ sawEOF = <<FALSE, FALSE>>

SpecRender == InitRender /\ [][NextRender]_vars

\* A Site on which nothing but one render call is followed.
BareSite ==
    /\ layoutDirExists = TRUE
    /\ contentDirExists = TRUE
    /\ inputFiles = <<>>
    /\ BuildDrafts = FALSE
    /\ ConfigIndexes = [tag |-> "tags"]
    /\ Source = NoSource
    /\ Pages = <<>>
    /\ Prev = <<>>
    /\ Next = <<>>
    /\ Indexes = <<>>
    /\ Sections = <<>>
    /\ LastChange = 0
    /\ steps = <<>>
    /\ processErr = Nil
    /\ todo = <<>>
    /\ publishCalls = {}
    /\ aliasCalls = {}
    /\ returned = <<>>
    /\ renderErr = Nil
    /\ buildErr = Nil
    /\ homePages = <<>>
    /\ pc = "render"

\* A render call that has started no goroutine yet.
RenderCallInit ==
    /\ ppc = "none"
    /\ tpc = "none"
    /\ err = Nil
    /\ execResult = Nil
    /\ applyResult = Nil
    /\ publishResult = Nil
    /\ result = Nil
    /\ panicked = FALSE
    /\ written = <<0, 0>>
    /\ closes = <<0, 0>>
    /\ sawEOF = <<FALSE, FALSE>>

\* Longest list of candidate layouts a caller of render hands over.
MaxLayouts == 3

CandidateNames == {<<"post", "single">>, DefaultSingleLayout, HomeLayout}

\* One render call with any list of candidates, repeated ones and none
\* included, on any template set.
InitResolve ==
    /\ BareSite
    /\ NoTest
    /\ RenderCallInit
    /\ layoutFiles \in SUBSET CandidateNames
    /\ Tmpl = layoutFiles
    /\ layouts \in SeqsUpTo(CandidateNames, MaxLayouts)
    /\ layout = NoLayout
    /\ rpc = "render"

SpecResolve == InitResolve /\ [][NextRender]_vars

\* Most Pages of a Site whose home page is rendered.
MaxHomePages == 10

HomeFile(i, draft) ==
    [section |-> "post", parseErr |-> FALSE, date |-> i, draft |-> draft,
     params |-> [tags |-> NoParam], aliases |-> <<>>, renderable |-> TRUE]

\* Render() at its call of RenderHomePage, on a Site that Process has filled
\* from n files of n dates and possibly a draft: the Pages newest first and
\* linked, one section, no index keys. The layout directory holds any of the
\* home page's layouts and no other, so nothing was published before.
InitHome ==
    /\ NoTest
    /\ layoutDirExists = TRUE
    /\ contentDirExists = TRUE
    /\ layoutFiles \in SUBSET {HomeLayout, RSSLayout, NotFoundLayout}
    /\ \E n \in 0..MaxHomePages : \E d \in 0..1 :
          /\ n + d >= 1
          /\ inputFiles = [i \in 1..(n + d) |-> HomeFile(i, i > n)]
          /\ Pages = [i \in 1..n |-> n + 1 - i]
          /\ Sections = IF n = 0 THEN <<>> ELSE ("post" :> Pages)
          /\ LastChange = n
    /\ BuildDrafts = FALSE
    /\ ConfigIndexes = [tag |-> "tags"]
    /\ Source = SourceOf(inputFiles)
    /\ Tmpl = layoutFiles
    /\ Next = PrevNextLinks(Pages, 1, [p \in PageIds |-> 0], [p \in PageIds |-> 0]).next
    /\ Prev = PrevNextLinks(Pages, 1, [p \in PageIds |-> 0], [p \in PageIds |-> 0]).prev
    /\ Indexes = ("tags" :> <<>>)
    /\ steps = <<"Process", "initialize", "prepTemplates", "CreatePages", "setupPrevNext",
                 "BuildSiteMeta", "RenderAliases", "ProcessShortcodes", "RenderIndexes",
                 "RenderIndexesIndexes", "RenderLists", "RenderPages", "RenderHomePage">>
    /\ processErr = Nil
    /\ todo = <<>>
    /\ publishCalls = {}
    /\ aliasCalls = {}
    /\ returned = [st \in {"RenderAliases", "RenderIndexes", "RenderIndexesIndexes",
                            "RenderLists", "RenderPages"} |-> Nil]
    /\ renderErr = Nil
    /\ buildErr = Nil
    /\ homePages = <<>>
    /\ NoRenderCall
    /\ pc = "RenderHomePage"

NextHome ==
    \/ RenderHomePage
    \/ BuildAfterRender

SpecHome == InitHome /\ [][NextHome]_vars

\* renderThing(d, layout, w) on any layout name and any template set, run the
\* way render runs it: in a goroutine that writes to renderWriter, with the
\* transformer on the other end and Publish behind it.
InitRenderThing ==
    /\ BareSite
    /\ NoTest
    /\ RenderCallInit
    /\ layoutFiles \in SUBSET {<<"post", "single">>, DefaultSingleLayout}
    /\ Tmpl = layoutFiles
    /\ layouts = <<<<"post", "single">>, DefaultSingleLayout>>
    /\ \E l \in {<<"post", "single">>, DefaultSingleLayout} : layout = l
    /\ rpc = "go renderThing"

NextRenderThing ==
    \/ renderGoRenderThing
    \/ renderGoApply
    \/ renderThing
    \/ ExecuteWrite
    \/ ExecuteReturn
    \/ goAssignErr
    \/ goCheckErr
    \/ ApplyRead
    \/ ApplyReadEOF
    \/ ApplyWrite
    \/ ApplyReturn
    \/ trWriterClose
    \/ PublishRead
    \/ PublishReadEOF
    \/ PublishReturn
    \/ renderReturnStore
    \/ renderReturnLoad

SpecRenderThing == InitRenderThing /\ [][NextRenderThing]_vars

\* ------------------------- the absolute-URL rewriter and its test
\* A document is a sequence of tokens: a run of text, or an attribute with
\* its name, the quote around its value, and the value as the pieces of a URL.
DoubleQuote == "\""
SingleQuote == "'"
Text(t) == [kind |-> "text", name |-> t, quote |-> "", value |-> <<>>]
Attr(name, quote, value) == [kind |-> "attr", name |-> name, quote |-> quote, value |-> value]

\* url.Parse: "scheme://host/path" has a scheme and a host, anything else
\* is a path.
ParseURL(v) ==
    IF Len(v) >= 3 /\ v[2] = "://"
    THEN [scheme |-> v[1], host |-> v[3], path |-> SubSeq(v, 4, Len(v))]
    ELSE [scheme |-> "", host |-> "", path |-> v]

\* base.ResolveReference(ref), for a base that has no path of its own.
ResolveReference(base, ref) ==
    IF ref.scheme # "" THEN ref
    ELSE [scheme |-> base.scheme, host |-> base.host,
          path |-> IF ref.path # <<>> /\ ref.path[1] = "/" THEN ref.path
                   ELSE <<"/">> \o ref.path]

\* URL.String()
URLString(u) == IF u.scheme # "" THEN <<u.scheme, "://", u.host>> \o u.path ELSE u.path

\* The rewriter as it would be if it wrote a value back in the quotes it
\* found it in.
AbsURLTokenKeepingQuote(base, tok) ==
    IF /\ tok.kind = "attr"
       /\ tok.name \in {"src", "href"}
       /\ ParseURL(tok.value).scheme = ""
       /\ ParseURL(tok.value).host = ""
    THEN Attr(tok.name, tok.quote,
              URLString(ResolveReference(ParseURL(base), ParseURL(tok.value))))
    ELSE tok

\* AbsURL on one token: a src or href whose value has no scheme and no host
\* is written in double quotes with the value resolved against the base;
\* everything else goes through as it is.
AbsURLToken(base, tok) ==
    IF /\ tok.kind = "attr"
       /\ tok.name \in {"src", "href"}
       /\ ParseURL(tok.value).scheme = ""
       /\ ParseURL(tok.value).host = ""
    THEN Attr(tok.name, DoubleQuote,
              URLString(ResolveReference(ParseURL(base), ParseURL(tok.value))))
    ELSE tok

\* (*AbsURL).Apply(w, r): what it writes and the error it returns.
AbsURLApply(base, doc) ==
    [out |-> [i \in 1..Len(doc) |-> AbsURLToken(base, doc[i])], err |-> Nil]

\* The documents of the test.
RelativeJS == <<"foobar.js">>
RootedPath == <<"/", "foobar">>
AbsoluteJS == <<"http", "://", "user@host:10234", "/", "foobar.js">>
AbsolutePath == <<"https", "://", "host", "/", "foobar">>

H5_JS_CONTENT_DOUBLE_QUOTE ==
    <<Text("head"), Attr("src", DoubleQuote, RelativeJS), Text("body"),
      Attr("href", SingleQuote, RootedPath), Text("tail")>>
H5_JS_CONTENT_SINGLE_QUOTE ==
    <<Text("head"), Attr("src", SingleQuote, RelativeJS), Text("body"),
      Attr("href", SingleQuote, RootedPath), Text("tail")>>
H5_JS_CONTENT_ABS_URL ==
    <<Text("head"), Attr("src", DoubleQuote, AbsoluteJS), Text("body"),
      Attr("href", DoubleQuote, AbsolutePath), Text("tail")>>
CORRECT_OUTPUT_SRC_HREF ==
    <<Text("head"), Attr("src", DoubleQuote, <<"http", "://", "base", "/", "foobar.js">>),
      Text("body"), Attr("href", DoubleQuote, <<"http", "://", "base", "/", "foobar">>),
      Text("tail")>>

abs_url_tests ==
    <<[content |-> H5_JS_CONTENT_DOUBLE_QUOTE, expected |-> CORRECT_OUTPUT_SRC_HREF],
      [content |-> H5_JS_CONTENT_SINGLE_QUOTE, expected |-> CORRECT_OUTPUT_SRC_HREF],
      [content |-> H5_JS_CONTENT_ABS_URL, expected |-> H5_JS_CONTENT_ABS_URL]>>

\* apply(t, tr, tests): one turn of its loop.
apply ==
    /\ testNo < Len(tests)
    /\ LET test == tests[testNo + 1]
           r == AbsURLApply(BaseURL, test.content)
       IN /\ content' = test.content
          /\ outBytes' = r.out
          /\ applyErr' = r.err
          /\ tErrors' = tErrors
                \cup (IF r.err # Nil THEN {<<testNo + 1, "Unexpected error">>} ELSE {})
                \cup (IF test.expected # r.out THEN {<<testNo + 1, "Expected">>} ELSE {})
    /\ testNo' = testNo + 1
    /\ UNCHANGED <<BaseURL, tests>>
    /\ UNCHANGED <<buildVars, renderVars>>

\* Longest document, in tokens, the rewriter is run on.
MaxTokens == 2

Tokens ==
    {Text("text")} \cup
    {Attr(n, q, v) : n \in {"src", "href", "id"}, q \in {DoubleQuote, SingleQuote},
                     v \in {RelativeJS, RootedPath, AbsoluteJS, AbsolutePath}}

Bases == {<<"http", "://", "base">>, <<"https", "://", "example.org">>}

\* TestAbsUrlify, or apply on one test of any document of up to MaxTokens
\* tokens and any of the bases, which expects the document back as it is.
InitAbsURL ==
    /\ BareSite
    /\ NoRenderCall
    /\ layoutFiles = {}
    /\ Tmpl = {}
    /\ \/ BaseURL = <<"http", "://", "base">> /\ tests = abs_url_tests
       \/ /\ BaseURL \in Bases
          /\ tests \in {<<[content |-> d, expected |-> d]>> : d \in SeqsUpTo(Tokens, MaxTokens)}
    /\ testNo = 0
    /\ content = <<>>
    /\ outBytes = <<>>
    /\ applyErr = Nil
    /\ tErrors = {}

SpecAbsURL == InitAbsURL /\ [][apply]_vars

\* ------------------------------------------------------------ claims
ProcessSteps == {"initialize", "prepTemplates", "CreatePages", "setupPrevNext",
                 "BuildSiteMeta"}
RenderStages == {"RenderAliases", "ProcessShortcodes", "RenderIndexes",
                 "RenderIndexesIndexes", "RenderLists", "RenderPages", "RenderHomePage"}
Started == Range(steps)
ProcessReturned == pc \notin ({"Build"} \cup ProcessSteps)
NothingRendered ==
    Started \cap RenderStages = {} /\ publishCalls = {} /\ aliasCalls = {}

\* C1: Render starts only after every step of Process has run and Process
\* has returned nil; when Process returns an error no render sub-stage is
\* started, nothing is published and Build returns that error; when Render
\* returns an error Build returns it.
C1_BuildRunsProcessThenRender ==
    /\ \A i \in 1..Len(steps) :
          steps[i] \in RenderStages =>
             /\ processErr = Nil
             /\ \A st \in ProcessSteps : \E j \in 1..(i - 1) : steps[j] = st
    /\ processErr # Nil => NothingRendered /\ (pc = "done" => buildErr = processErr)
    /\ (pc = "done" /\ renderErr # Nil) => buildErr = renderErr

\* Build has returned the error of a Render that published something.
C1_Witness ==
    /\ pc = "done"
    /\ processErr = Nil
    /\ renderErr = ErrPublish
    /\ buildErr = ErrPublish
    /\ publishCalls # {}

\* C2: once template execution or the transform has failed, the program is
\* not ended by a panic and the render call, when it returns, returns an
\* error.
C2_StageFailureIsReturned ==
    (execResult # Nil \/ applyResult # Nil) =>
        /\ ~panicked
        /\ rpc = "returned" => result # Nil

\* A goroutine sits in a Write that nothing will ever read: the reader of
\* renderReader has left Apply, or the reader of trReader has left Publish.
ProducerStuck == ppc = "Execute.Write" /\ tpc \in {"Close", "done"}
TransformStuck == tpc = "Apply.Write" /\ rpc \in {"return", "return.load", "returned"}

\* C3: after the render call has returned, neither of its two goroutines is
\* blocked on a pipe for good.
C3_NoWorkerOutlivesRender ==
    rpc = "returned" => ~ProducerStuck /\ ~TransformStuck

\* C4: when Publish returned an error, the render call returns that error.
C4_PublishErrorIsReturned ==
    (rpc = "returned" /\ publishResult # Nil) => result = publishResult

\* C5: when checkDirectories finds a directory missing, Process goes no
\* further than initialize and returns the error of checkDirectories.
C5_MissingDirectoryFailsFast ==
    checkDirectories # Nil =>
        /\ Started \cap {"prepTemplates", "CreatePages", "setupPrevNext", "BuildSiteMeta"} = {}
        /\ ProcessReturned => processErr = checkDirectories

\* C6: when CreatePages has run on a Site with no Source or with a Source of
\* no files, Process returned an error (the one of CreatePages), no render
\* sub-stage was started, nothing was published, and Build returns that error.
C6_NoSourceFilesFailsFast ==
    ("CreatePages" \in Started /\ (Source.isNil \/ Len(Source.files) = 0)) =>
        /\ processErr = ErrNoSourceFiles
        /\ Started \cap {"setupPrevNext", "BuildSiteMeta"} = {}
        /\ NothingRendered
        /\ pc = "done" => buildErr = ErrNoSourceFiles

\* Build has returned on a Site that never had a Source.
C6_Witness ==
    /\ pc = "done"
    /\ Source.isNil
    /\ "CreatePages" \in Started
    /\ buildErr = ErrNoSourceFiles

\* C7: when a render sub-stage has returned an error, Render returns that
\* error and no sub-stage was started after it.
C7_StageErrorAbortsRender ==
    \A st \in DOMAIN returned :
        returned[st] # Nil => renderErr = returned[st] /\ steps[Len(steps)] = st

\* The candidate layouts of a Page that is rendered through layouts.
PageLayouts(p) == PageLayout(p) \o <<DefaultSingleLayout>>

\* Some content Page, taxonomy term or section has none of its candidate
\* layouts in the template set.
MandatoryLayoutMissing ==
    \/ \E p \in Range(Pages) :
          Renderable(p) /\ findFirstLayout(PageLayouts(p), Tmpl) = NoLayout
    \/ \E s \in DOMAIN ConfigIndexes :
          DOMAIN Indexes[ConfigIndexes[s]] # {} /\ IndexLayout(s) \notin Tmpl
    \/ \E sec \in DOMAIN Sections :
          findFirstLayout(<<SectionLayout(sec), DefaultListLayout>>, Tmpl) = NoLayout

\* C8: a Build that got through Process and returns, with a mandatory
\* artifact that has no layout, returns an error.
C8_MissingLayoutIsFatal ==
    (pc = "done" /\ processErr = Nil /\ "BuildSiteMeta" \in Started
        /\ MandatoryLayoutMissing) => buildErr # Nil

\* C9: after Process has succeeded with at least one Page, the Pages are in
\* newest-first order, Next of each Page is the Page after it and Prev of
\* that one is the Page itself, the first has no Prev and the last no Next.
C9_PrevNextFollowsOrder ==
    (pc = "Process.return" /\ processErr = Nil /\ Len(Pages) >= 1) =>
        /\ IsSorted(Pages)
        /\ \A i \in 1..(Len(Pages) - 1) :
              Next[Pages[i]] = Pages[i + 1] /\ Prev[Pages[i + 1]] = Pages[i]
        /\ Prev[Pages[1]] = 0
        /\ Next[Pages[Len(Pages)]] = 0

\* Process has succeeded with Pages of two dates, linked to each other.
C9_Witness ==
    /\ pc = "Process.return"
    /\ processErr = Nil
    /\ Len(Pages) >= 2
    /\ Date(Pages[1]) > Date(Pages[Len(Pages)])
    /\ Next[Pages[1]] = Pages[2]
    /\ Prev[Pages[2]] = Pages[1]

\* How often key k occurs in the value Page p has for the field, when that
\* value is a collection of strings.
Occurrences(p, plural, k) ==
    IF GetParam(p, plural).kind = "[]string" THEN Count(k, GetParam(p, plural).v) ELSE 0

\* C10: after BuildSiteMeta, an index has a key exactly when some Page's
\* value holds it, and under the key each Page as often as its value holds
\* the key.
C10_IndexHoldsPagesPerOccurrence ==
    (pc = "Process.return" /\ "BuildSiteMeta" \in Started) =>
        \A plural \in Plurals :
            /\ DOMAIN Indexes[plural] =
                  {k \in UNION {Range(GetParam(p, plural).v) : p \in PageIds} :
                      \E p \in Range(Pages) : Occurrences(p, plural, k) > 0}
            /\ \A k \in DOMAIN Indexes[plural] : \A p \in PageIds :
                  Count(p, Indexes[plural][k]) =
                      IF p \in Range(Pages) THEN Occurrences(p, plural, k) ELSE 0

\* An index key holds one Page twice and another Page once, and a third
\* kind of Page, whose value is a bare string, not at all.
C10_Witness ==
    /\ pc = "Process.return"
    /\ "BuildSiteMeta" \in Started
    /\ "x" \in DOMAIN Indexes["tags"]
    /\ \E p, q \in Range(Pages) :
          /\ Count(p, Indexes["tags"]["x"]) = 2
          /\ GetParam(q, "tags") = BareString("x")
          /\ Count(q, Indexes["tags"]["x"]) = 0

\* C11: after BuildSiteMeta, a Page whose value for a registered field is
\* there but is not a collection of strings stands under no key of that
\* field's index, BuildSiteMeta has returned nil, and the Page is once in
\* Pages and once in the section index under its own section.
C11_InvalidValueOnlySkipsIndex ==
    (pc = "Process.return" /\ "BuildSiteMeta" \in Started) =>
        \A p \in Range(Pages) : \A plural \in Plurals :
            GetParam(p, plural).kind = "string" =>
                /\ \A k \in DOMAIN Indexes[plural] : Count(p, Indexes[plural][k]) = 0
                /\ processErr = Nil
                /\ Count(p, Pages) = 1
                /\ Section(p) \in DOMAIN Sections
                /\ Count(p, Sections[Section(p)]) = 1

\* A Page with a bare string for its tags is in Pages and in its section,
\* next to a Page that is indexed under the same string.
C11_Witness ==
    /\ pc = "Process.return"
    /\ "BuildSiteMeta" \in Started
    /\ processErr = Nil
    /\ \E p, q \in Range(Pages) :
          /\ GetParam(p, "tags") = BareString("x")
          /\ Section(p) \in DOMAIN Sections
          /\ Count(p, Sections[Section(p)]) = 1
          /\ "x" \in DOMAIN Indexes["tags"]
          /\ Indexes["tags"]["x"] = <<q>>
          /\ q # p

\* The position of the first candidate the template set has; 0 when none.
FirstHit(names, tmpl) ==
    IF \E i \in 1..Len(names) : names[i] \in tmpl
    THEN CHOOSE i \in 1..Len(names) :
            names[i] \in tmpl /\ \A j \in 1..(i - 1) : names[j] \notin tmpl
    ELSE 0

\* C12: once render has resolved its candidates, the layout is the candidate
\* at the lowest position the template set has, and the empty name when the
\* set has none of them or the list is empty.
C12_FirstExistingLayout ==
    rpc # "render" =>
        layout = IF FirstHit(layouts, Tmpl) = 0 THEN NoLayout
                 ELSE layouts[FirstHit(layouts, Tmpl)]

\* The first candidate is missing, two later ones exist and differ, and the
\* earlier of the two was picked.
C12_Witness ==
    /\ rpc # "render"
    /\ Len(layouts) = 3
    /\ layouts[1] \notin Tmpl
    /\ layouts[2] \in Tmpl
    /\ layouts[3] \in Tmpl
    /\ layouts[2] # layouts[3]
    /\ layout = layouts[2]

\* The sub-stages of Render in the order Render calls them.
RenderOrder == <<"RenderAliases", "ProcessShortcodes", "RenderIndexes",
                 "RenderIndexesIndexes", "RenderLists", "RenderPages", "RenderHomePage">>

IsRenderStage(st) == st \in RenderStages

\* Every alias of every Page, with its Page.
AllAliases == Range(AliasItems(Pages, 1))

\* C13: the render sub-stages started so far are the first ones of the order
\* aliases, shortcodes, term pages, index of indexes, section lists, content
\* pages, home page; once the shortcodes are being expanded every alias of
\* every Page has been published, and until then nothing has been rendered.
C13_AliasesFirstThenFixedOrder ==
    /\ \E n \in 0..Len(RenderOrder) :
          SelectSeq(steps, IsRenderStage) = SubSeq(RenderOrder, 1, n)
    /\ "ProcessShortcodes" \in Started => aliasCalls = AllAliases
    /\ "ProcessShortcodes" \notin Started => publishCalls = {}

\* A Build has gone through every sub-stage, with the aliases of two Pages
\* published and pages rendered after them.
C13_Witness ==
    /\ pc = "done"
    /\ buildErr = Nil
    /\ SelectSeq(steps, IsRenderStage) = RenderOrder
    /\ Cardinality(aliasCalls) = 2
    /\ publishCalls # {}

\* C14: when CreatePages has run on a Source with files, it has returned the
\* parse error if ReadFrom rejects one of them (and Process stopped there);
\* otherwise it has returned nil and Pages holds once each file that is no
\* draft, or every file when BuildDrafts is set, and nothing else.
C14_OnePagePerNonDraftFile ==
    ("CreatePages" \in Started /\ ~Source.isNil /\ Len(Source.files) >= 1) =>
        IF \E i \in 1..Len(Source.files) : Source.files[i].parseErr
        THEN /\ processErr = ErrParse
             /\ pc = "Process.return"
             /\ Started \cap {"setupPrevNext", "BuildSiteMeta"} = {}
        ELSE /\ processErr = Nil
             /\ \A p \in PageIds :
                   Count(p, Pages) =
                      IF BuildDrafts \/ ~Source.files[p].draft THEN 1 ELSE 0
             /\ Range(Pages) \subseteq PageIds

\* Without BuildDrafts, CreatePages has kept one file and left out a draft.
C14_Witness ==
    /\ "CreatePages" \in Started
    /\ processErr = Nil
    /\ ~BuildDrafts
    /\ Len(Source.files) = 2
    /\ Len(Pages) = 1
    /\ \E p \in PageIds : Source.files[p].draft /\ p \notin Range(Pages)

Min(a, b) == IF a < b THEN a ELSE b

\* C15: once RenderHomePage has made the home page's node, its "Pages" are
\* the first min(9, len(Pages)) of the sorted Pages, in their order.
C15_HomePageHoldsNineMostRecent ==
    ("RenderHomePage" \in Started /\ pc # "RenderHomePage") =>
        /\ homePages = SubSeq(Pages, 1, Min(HomePageLimit, Len(Pages)))
        /\ Len(homePages) <= HomePageLimit
        /\ IsSorted(homePages)

\* A Site of more than nine Pages has its home page published with nine,
\* the oldest of them left out.
C15_Witness ==
    /\ pc = "done"
    /\ buildErr = Nil
    /\ <<"", "", "">> \in publishCalls
    /\ Len(Pages) > HomePageLimit
    /\ Len(homePages) = HomePageLimit
    /\ homePages[HomePageLimit] = Pages[HomePageLimit]
    /\ Pages[Len(Pages)] \notin Range(homePages)

HomePath == <<"", "", "">>
HomeFeedPath == <<"", "", "xml">>
NotFoundPath == <<"", "404", "html">>
IndexesIndexPath(plural) == <<plural, "index", "html">>

\* C16: a feed is only published when the template set has rss.xml, the 404
\* page only when it has 404.html, an index of indexes only when it has
\* indexes/indexes.html, and without that layout RenderIndexesIndexes returns
\* nil; a Build that returns nil has published the home page's feed and the
\* 404 page when their layouts exist, and every index of indexes when its
\* layout exists and the sub-stage returned nil; and when RenderHomePage
\* fails without the two optional layouts, it is over the home page itself.
C16_OptionalArtifactsFollowLayouts ==
    /\ (\E c \in publishCalls : c[3] = "xml") => RSSLayout \in Tmpl
    /\ NotFoundPath \in publishCalls => NotFoundLayout \in Tmpl
    /\ \A pl \in Plurals : IndexesIndexPath(pl) \in publishCalls => IndexesLayout \in Tmpl
    /\ ("RenderIndexesIndexes" \in DOMAIN returned /\ IndexesLayout \notin Tmpl) =>
            returned["RenderIndexesIndexes"] = Nil
    /\ (pc = "done" /\ processErr = Nil /\ buildErr = Nil) =>
            /\ RSSLayout \in Tmpl => HomeFeedPath \in publishCalls
            /\ NotFoundLayout \in Tmpl => NotFoundPath \in publishCalls
            /\ (IndexesLayout \in Tmpl /\ returned["RenderIndexesIndexes"] = Nil) =>
                   \A pl \in Plurals : IndexesIndexPath(pl) \in publishCalls
    /\ ("RenderHomePage" \in DOMAIN returned /\ returned["RenderHomePage"] # Nil
            /\ RSSLayout \notin Tmpl /\ NotFoundLayout \notin Tmpl) =>
            HomePath \in publishCalls

\* A Build has returned nil with the 404 page published and, for want of
\* their layouts, no feed and no index of indexes.
C16_Witness ==
    /\ pc = "done"
    /\ processErr = Nil
    /\ buildErr = Nil
    /\ NotFoundLayout \in Tmpl
    /\ RSSLayout \notin Tmpl
    /\ IndexesLayout \notin Tmpl
    /\ returned["RenderIndexesIndexes"] = Nil
    /\ NotFoundPath \in publishCalls
    /\ HomePath \in publishCalls
    /\ DOMAIN Indexes["tags"] # {}
    /\ \A c \in publishCalls : c[3] # "xml" /\ c # IndexesIndexPath("tags")

HasScheme(v) == Len(v) >= 3 /\ v[2] = "://"

\* C17: after the rewriter has run on a document it has returned nil; each
\* src or href whose value has no scheme stands in double quotes with the
\* base URL in front of its path; each attribute whose value has a scheme is
\* as it was; a document whose values all have a scheme is returned as it
\* was; and the three tests of TestAbsUrlify report no error.
C17_AbsURLRewritesRelativeOnly ==
    testNo > 0 =>
        /\ applyErr = Nil
        /\ Len(outBytes) = Len(content)
        /\ \A i \in 1..Len(content) :
              /\ (content[i].kind = "attr" /\ content[i].name \in {"src", "href"}
                    /\ ~HasScheme(content[i].value)) =>
                     outBytes[i] =
                        Attr(content[i].name, DoubleQuote,
                             BaseURL \o (IF content[i].value[1] = "/" THEN <<>> ELSE <<"/">>)
                                     \o content[i].value)
              /\ (content[i].kind = "attr" /\ HasScheme(content[i].value)) =>
                     outBytes[i] = content[i]
        /\ (\A i \in 1..Len(content) :
               content[i].kind = "attr" => HasScheme(content[i].value)) =>
              outBytes = content
        /\ tests = abs_url_tests => tErrors = {}

\* A single-quoted relative href came out double-quoted and absolute, next
\* to a single-quoted absolute src that came out as it went in.
C17_Witness ==
    /\ testNo > 0
    /\ Len(content) = 2
    /\ content[1] = Attr("href", SingleQuote, RootedPath)
    /\ content[2] = Attr("src", SingleQuote, AbsoluteJS)
    /\ outBytes[1] = Attr("href", DoubleQuote, BaseURL \o RootedPath)
    /\ outBytes[2] = content[2]

C19_SortedBeforeUse ==
    /\ (pc \in {"setupPrevNext", "BuildSiteMeta"}
           \/ Started \cap ({"setupPrevNext", "BuildSiteMeta"} \cup RenderStages) # {}) =>
            IsSorted(Pages)
    /\ Started \cap RenderStages # {} =>
            /\ \A plural \in Plurals : \A k \in DOMAIN Indexes[plural] :
                  IsSorted(Indexes[plural][k])
            /\ \A section \in DOMAIN Sections : IsSorted(Sections[section])

\* Render has started on two Pages that the source yields oldest first:
\* Pages, the key they share and their section hold the newer one first.
C19_Witness ==
    /\ "RenderAliases" \in Started
    /\ Len(Pages) = 2
    /\ Pages[1] > Pages[2]
    /\ Date(Pages[1]) > Date(Pages[2])
    /\ "x" \in DOMAIN Indexes["tags"]
    /\ Indexes["tags"]["x"] = Pages
    /\ Sections["post"] = Pages

\* C20: after BuildSiteMeta every key of every index and every section holds
\* at least one Page, and no render sub-stage ends the program by reading the
\* first element of an empty collection.
C20_EveryKeyHasAPage ==
    /\ "BuildSiteMeta" \in Started =>
            /\ \A plural \in Plurals : \A k \in DOMAIN Indexes[plural] :
                  Len(Indexes[plural][k]) >= 1
            /\ \A section \in DOMAIN Sections : Len(Sections[section]) >= 1
    /\ pc # "index out of range"

\* RenderIndexes and RenderLists have gone through a Site of one Page and
\* one draft that was left out: the key and the section hold the one Page.
C20_Witness ==
    /\ "RenderLists" \in DOMAIN returned
    /\ \E f \in PageIds : inputFiles[f].draft /\ f \notin Range(Pages)
    /\ Len(Pages) = 1
    /\ "x" \in DOMAIN Indexes["tags"]
    /\ Indexes["tags"]["x"] = Pages
    /\ Sections = ("post" :> Pages)

====
